---- MODULE Spec2Model ----
\* Model of the local-chat backend: the shared in-memory chat store
\* (src/lib/chat-store.ts), the HTTP polling routes built on it
\* (join, send, poll, leave, stats) and the stand-alone Socket.IO chat
\* service (mini-services/chat-service/index.ts), which keeps its own user
\* map and message log.
EXTENDS Integers, Sequences, FiniteSets, TLC

VARIABLES
    users,        \* store.users: Map<id, User> in insertion order
    messages,     \* store.messages: Message[]
    now,          \* Date.now() of the host, in milliseconds
    svcUsers,     \* chat service: users Map<socket.id, User> in insertion order
    svcMessages,  \* chat service: messages Message[]
    connected,    \* chat service: ids of the sockets currently connected
    resp,         \* the call or request just served, with what it returned,
                  \* until the caller has taken the result; None in between
    issued,       \* per username, the record the last store.addUser call returned
    appended,     \* number of messages pushed onto either log so far
    client        \* the ChatApp component of one browser tab: its state and refs,
                  \* its fetches on their way (inFlight), and how many join and
                  \* send requests it has made (posted)

vars == <<users, messages, now, svcUsers, svcMessages, connected, resp, issued, appended,
          client>>

----------------------------------------------------------------------------
\* Bounds of the exploration

\* free slots left in the log of an instance that has already served traffic
Headroom == 0
\* pushes explored beyond the starting log
MaxAppends == 1
\* the clock is explored up to this many milliseconds past the presence timeout
MaxJitter == 1
\* requests of the browser tab that may be on their way at the same time
MaxInFlight == 2
\* join and send requests the browser tab makes
MaxPosts == 2

\* pushes explored: MaxAppends, and one more for every join or send request the
\* browser tab has made
Budget == MaxAppends + client.posted

----------------------------------------------------------------------------
\* Program constants and value domains

MAX_MESSAGES == 100
Timeout == 30000

\* colors[0] of the store's palette; getRandomColor picks any entry explored
colors == <<"#e74c3c">>
getRandomColor == {colors[i] : i \in 1..Len(colors)}

\* colors[0..1] of the chat service's own palette, and its getRandomColor
svcColors == <<"#e74c3c", "#3498db">>
svcGetRandomColor == {svcColors[i] : i \in 1..Len(svcColors)}

\* Math.random().toString(36).substr(2, 9): any string of at most nine base-36
\* digits, the empty one included (Math.random() = 0 gives "0", and
\* "0".substr(2, 9) is ""); nothing prevents a value from coming up twice
generateId == {"", "1"}

\* a field that the request body does not carry (undefined)
Absent == "<undefined>"
Names == {"a", "b"}
Contents == {"hi", " "}
Sockets == {"s1", "s2"}

\* a presence test that lets the empty string through
TruthyDefined(v) == v # Absent

\* JavaScript truthiness of an optional string field
Truthy(v) == v # Absent /\ v # ""

\* String.prototype.trimStart on the same contents
trimStart(s) == IF s = " " THEN "" ELSE IF s = " hi " THEN "hi " ELSE s

\* String.prototype.trim on the contents the model sends
trim(s) == IF s = " " THEN "" ELSE IF s = " hi " THEN "hi" ELSE s

\* the values a random generator may return on a path that calls it, and one
\* fixed value on a path that does not
Drawn(called, S) == IF called THEN S ELSE {CHOOSE x \in S : TRUE}

NoUser == [id |-> Absent]
None == [op |-> "none"]

----------------------------------------------------------------------------
\* Map<string, User> as an insertion-ordered sequence of records

\* a lookup by username that never matches
FindByNameNever(us, name) == 0

\* position of the first value satisfying the username test, 0 if none
FindByName(us, name) ==
    IF \E i \in 1..Len(us) : us[i].username = name
    THEN CHOOSE i \in 1..Len(us) :
            /\ us[i].username = name
            /\ \A j \in 1..(i - 1) : us[j].username # name
    ELSE 0

\* position of the entry stored under this key, 0 if none
FindById(us, id) ==
    IF \E i \in 1..Len(us) : us[i].id = id
    THEN CHOOSE i \in 1..Len(us) : us[i].id = id
    ELSE 0

\* Map.set: an existing key keeps its position and takes the new value
MapSet(us, u) ==
    LET i == FindById(us, u.id)
    IN  IF i # 0 THEN [us EXCEPT ![i] = u] ELSE Append(us, u)

\* a delete that removes nothing
MapDeleteNothing(us, id) == us

\* Map.delete
MapDelete(us, id) == SelectSeq(us, LAMBDA u : u.id # id)

\* Array.from(users.values()).find(u => u.username === username)
findUser(us, name) ==
    LET i == FindByName(us, name) IN IF i = 0 THEN NoUser ELSE us[i]

----------------------------------------------------------------------------
\* The chat store (chat-store.ts). Each operator returns the new collections
\* and the value the method returns; addUser also tells whether it returned
\* the record it found (existing) or a new one.

\* addUser without the lookup by username: every call inserts a new record
addUserNoLookup(us, username, id, color, t) ==
    LET user == [id |-> id, username |-> username, color |-> color, lastSeen |-> t]
    IN  [users |-> MapSet(us, user), ret |-> user, existing |-> FALSE]

\* store.addUser(username), with the id and the color the generators give
addUser(us, username, id, color, t) ==
    LET i == FindByName(us, username)
    IN  IF i # 0
        THEN [users |-> [us EXCEPT ![i].lastSeen = t],
              ret   |-> [us[i] EXCEPT !.lastSeen = t], existing |-> TRUE]
        ELSE LET user == [id |-> id, username |-> username,
                          color |-> color, lastSeen |-> t]
             IN  [users |-> MapSet(us, user), ret |-> user, existing |-> FALSE]

\* removeUser with the test inverted: keeps the record it should delete
removeUserInverted(us, userId) == SelectSeq(us, LAMBDA u : u.id = userId)

\* store.removeUser(userId); Map.delete tells whether the key was there
removeUser(us, userId) == MapDelete(us, userId)

\* store.getUser(userId)
getUser(us, userId) ==
    LET i == FindById(us, userId) IN IF i = 0 THEN NoUser ELSE us[i]

\* the staleness test with >= in place of >
StaleAtTimeout(u, t) == t - u.lastSeen >= Timeout

\* the staleness test with the timeout doubled
StaleLate(u, t) == t - u.lastSeen > 2 * Timeout

\* store.getOnlineUsers(): deletes the stale records, returns the rest
Stale(u, t) == t - u.lastSeen > Timeout
getOnlineUsers(us, t) == SelectSeq(us, LAMBDA u : ~Stale(u, t))

\* updateUserSeen that inserts a record when it finds none
updateUserSeenUpsert(us, userId, t) ==
    LET i == FindById(us, userId)
    IN  IF i # 0 THEN [us EXCEPT ![i].lastSeen = t]
        ELSE Append(us, [id |-> userId, username |-> "", color |-> colors[1],
                         lastSeen |-> t])

\* store.updateUserSeen(userId)
updateUserSeen(us, userId, t) ==
    LET i == FindById(us, userId)
    IN  IF i # 0 THEN [us EXCEPT ![i].lastSeen = t] ELSE us

\* push without the shift: the log grows past the bound
pushUnbounded(ms, m) == Append(ms, m)

\* messages.push(message); if (messages.length > 100) messages.shift()
pushBounded(ms, m) ==
    LET pushed == Append(ms, m)
    IN  IF Len(pushed) > MAX_MESSAGES THEN Tail(pushed) ELSE pushed

\* the Message record; its creation timestamp, which no operation reads, is
\* left out
newMessage(id, username, content, color, type, t) ==
    [id |-> id, username |-> username, content |-> content,
     type |-> type, color |-> color]

\* store.addMessage(username, content, color, type)
addMessage(ms, id, username, content, color, type, t) ==
    LET message == newMessage(id, username, content, color, type, t)
    IN  [messages |-> pushBounded(ms, message), ret |-> message]

\* addSystemMessage that leaves the type at addMessage's default
addSystemMessageAsUser(ms, id, content, t) ==
    addMessage(ms, id, "System", content, "#666666", "user", t)

\* store.addSystemMessage(content)
addSystemMessage(ms, id, content, t) ==
    addMessage(ms, id, "System", content, "#666666", "system", t)

\* store.getMessages()
getMessages(ms) == ms

\* getStats that counts every entry as a user message
getStatsNoFilter(us, ms, t) ==
    [onlineUsers   |-> Len(getOnlineUsers(us, t)),
     totalMessages |-> Len(ms),
     userMessages  |-> Len(ms)]

\* store.getStats(), computed on the user map the sweep leaves
getStats(us, ms, t) ==
    [onlineUsers   |-> Len(getOnlineUsers(us, t)),
     totalMessages |-> Len(ms),
     userMessages  |-> Len(SelectSeq(ms, LAMBDA m : m.type = "user"))]

----------------------------------------------------------------------------
\* Initial states: freshly started processes; processes whose logs already
\* hold MAX_MESSAGES - Headroom messages that a client posted with an explicit
\* color (such a post appends to the log and creates no user record); or the
\* latter with that client's user record in the store and in the chat
\* service, from joins that came before those posts and whose notices have
\* since left the logs; the browser tab that made the store's join still shows
\* what that join returned (its next poll is due).

BacklogLen == MAX_MESSAGES - Headroom

Backlog ==
    [i \in 1..BacklogLen |->
        newMessage(ToString(BacklogLen + 1 - i), "a", "hi", colors[1], "user", 0)]

\* the record that the join route left in the store
Joined == [id |-> "1", username |-> "a", color |-> colors[1], lastSeen |-> 0]

\* the record that a join over socket s1 left in the chat service
SvcJoined == [id |-> "s1", username |-> "a", color |-> svcColors[1]]

\* the notice that join appended to the then empty log
JoinNotice == newMessage("j0", "System", "a joined the chat", "#666666", "system", 0)

\* a request slot of the tab with no fetch under way
Free == [state |-> "free"]

\* useState / useRef initial values of ChatApp, before the page is opened
Unmounted ==
    [mounted |-> FALSE, isWebSocketMode |-> FALSE, username |-> "", isJoined |-> FALSE,
     isConnected |-> FALSE, userId |-> "", messages |-> <<>>, lastMessageId |-> "",
     socket |-> Absent, inFlight |-> [k \in 1..MaxInFlight |-> Free], posted |-> 0]

\* the tab after handleJoin over HTTP got Joined and the log <<JoinNotice>>
JoinedTab ==
    [mounted |-> TRUE, isWebSocketMode |-> FALSE, username |-> "a", isJoined |-> TRUE,
     isConnected |-> TRUE, userId |-> Joined.id, messages |-> <<JoinNotice>>,
     lastMessageId |-> JoinNotice.id, socket |-> Absent,
     inFlight |-> [k \in 1..MaxInFlight |-> Free], posted |-> 0]

Init ==
    /\ \E served \in BOOLEAN :
          /\ messages = IF served THEN Backlog ELSE <<>>
          /\ svcMessages = IF served THEN Backlog ELSE <<>>
          /\ \E joined \in {FALSE, served} :
                /\ users = IF joined THEN <<Joined>> ELSE <<>>
                /\ svcUsers = IF joined THEN <<SvcJoined>> ELSE <<>>
                /\ connected = IF joined THEN {"s1"} ELSE {}
                /\ client = IF joined THEN JoinedTab ELSE Unmounted
    /\ now = 0
    /\ resp = None
    /\ issued = [n \in Names |-> NoUser]
    /\ appended = 0

svcVars == <<svcUsers, svcMessages, connected>>

\* Time passes between two operations: the first presence-timeout period in
\* one stretch, then millisecond by millisecond.
Tick(d) ==
    /\ now + d <= Timeout + MaxJitter
    /\ d < Timeout => now >= Timeout
    /\ now' = now + d
    /\ UNCHANGED <<users, messages, resp, issued, appended, client>>
    /\ UNCHANGED svcVars

\* The caller takes the result of the operation just served.
Return ==
    /\ resp # None
    /\ resp' = None
    /\ UNCHANGED <<users, messages, now, issued, appended, client>>
    /\ UNCHANGED svcVars

----------------------------------------------------------------------------
\* The store's methods called directly (the store contract of chat-store.ts)

StoreAddUser(username, id, color) ==
    LET r == addUser(users, username, id, color, now)
    IN  /\ users' = r.users
        /\ resp' = [op |-> "addUser", username |-> username, ret |-> r.ret,
                    existing |-> r.existing]
        /\ issued' = [issued EXCEPT ![username] = r.ret]
        /\ UNCHANGED <<messages, now, appended>>
        /\ UNCHANGED svcVars

StoreRemoveUser(userId) ==
    /\ users' = removeUser(users, userId)
    /\ resp' = [op |-> "removeUser", userId |-> userId,
                deleted |-> FindById(users, userId) # 0]
    /\ issued' = [n \in Names |-> NoUser]
    /\ UNCHANGED <<messages, now, appended>>
    /\ UNCHANGED svcVars

StoreGetUser(userId) ==
    /\ resp' = [op |-> "getUser", userId |-> userId, ret |-> getUser(users, userId)]
    /\ UNCHANGED <<users, messages, now, issued, appended>>
    /\ UNCHANGED svcVars

StoreGetOnlineUsers ==
    /\ users' = getOnlineUsers(users, now)
    /\ resp' = [op |-> "getOnlineUsers", ret |-> getOnlineUsers(users, now)]
    /\ UNCHANGED <<messages, now, issued, appended>>
    /\ UNCHANGED svcVars

StoreUpdateUserSeen(userId) ==
    /\ users' = updateUserSeen(users, userId, now)
    /\ resp' = [op |-> "updateUserSeen", userId |-> userId]
    /\ UNCHANGED <<messages, now, issued, appended>>
    /\ UNCHANGED svcVars

StoreAddMessage(id, username, content, color, type) ==
    LET r == addMessage(messages, id, username, content, color, type, now)
    IN  /\ appended < Budget
        /\ messages' = r.messages
        /\ appended' = appended + 1
        /\ resp' = [op |-> "addMessage", ret |-> r.ret]
        /\ UNCHANGED <<users, now, issued>>
        /\ UNCHANGED svcVars

StoreAddSystemMessage(id, content) ==
    LET r == addSystemMessage(messages, id, content, now)
    IN  /\ appended < Budget
        /\ messages' = r.messages
        /\ appended' = appended + 1
        /\ resp' = [op |-> "addSystemMessage", ret |-> r.ret]
        /\ UNCHANGED <<users, now, issued>>
        /\ UNCHANGED svcVars

StoreGetMessages ==
    /\ resp' = [op |-> "getMessages", ret |-> getMessages(messages)]
    /\ UNCHANGED <<users, messages, now, issued, appended>>
    /\ UNCHANGED svcVars

StoreGetStats ==
    /\ users' = getOnlineUsers(users, now)
    /\ resp' = [op |-> "getStats", ret |-> getStats(users, messages, now)]
    /\ UNCHANGED <<messages, now, issued, appended>>
    /\ UNCHANGED svcVars

\* A caller makes one store call once it has taken the previous result.
Elapse == resp = None /\ \E d \in {1, Timeout} : Tick(d)

CallAddUser ==
    /\ resp = None
    /\ UNCHANGED client
    /\ \E u \in Names :
          \E id \in Drawn(findUser(users, u) = NoUser, generateId),
             c \in Drawn(findUser(users, u) = NoUser, getRandomColor) :
                StoreAddUser(u, id, c)

CallRemoveUser ==
    /\ resp = None
    /\ UNCHANGED client
    /\ \E id \in generateId : StoreRemoveUser(id)

CallGetUser ==
    /\ resp = None
    /\ UNCHANGED client
    /\ \E id \in generateId : StoreGetUser(id)

CallGetOnlineUsers ==
    /\ resp = None
    /\ UNCHANGED client
    /\ StoreGetOnlineUsers

CallUpdateUserSeen ==
    /\ resp = None
    /\ UNCHANGED client
    /\ \E id \in generateId : StoreUpdateUserSeen(id)

CallAddMessage ==
    /\ resp = None
    /\ UNCHANGED client
    /\ \E id \in generateId, t \in {"user", "system"} :
          StoreAddMessage(id, "a", "hi", colors[1], t)

CallAddSystemMessage ==
    /\ resp = None
    /\ UNCHANGED client
    /\ \E id \in generateId : StoreAddSystemMessage(id, "a joined the chat")

CallGetMessages ==
    /\ resp = None
    /\ UNCHANGED client
    /\ StoreGetMessages

CallGetStats ==
    /\ resp = None
    /\ UNCHANGED client
    /\ StoreGetStats

NextStore ==
    \/ Return
    \/ Elapse
    \/ CallAddUser
    \/ CallRemoveUser
    \/ CallGetUser
    \/ CallGetOnlineUsers
    \/ CallUpdateUserSeen
    \/ CallAddMessage
    \/ CallAddSystemMessage
    \/ CallGetMessages
    \/ CallGetStats

SpecStore == Init /\ [][NextStore]_vars

----------------------------------------------------------------------------
\* The polling adapter: one action per HTTP route. A request body is either
\* rejected by request.json() or an object whose fields may be missing.

BadBody == [malformed |-> TRUE]
Body(fields) == [malformed |-> FALSE] @@ fields

Rejected(op, body, error) ==
    /\ resp' = [op |-> op, status |-> 400, body |-> body, error |-> error]
    /\ UNCHANGED <<users, messages, now, issued, appended>>
    /\ UNCHANGED svcVars

\* the paths of the join route that reach the store, and that create a record
JoinAccepts(body) == ~body.malformed /\ Truthy(body.username)
JoinCreates(body) == JoinAccepts(body) /\ findUser(users, body.username) = NoUser

\* POST /api/chat/join
JoinRoute(body, id, color, msgId) ==
    IF body.malformed THEN Rejected("join", body, "Invalid JSON")
    ELSE IF ~Truthy(body.username) THEN Rejected("join", body, "username required")
    ELSE LET a == addUser(users, body.username, id, color, now)
             m == addSystemMessage(messages, msgId, body.username \o " joined the chat", now)
             online == getOnlineUsers(a.users, now)
         IN  /\ appended < Budget
             /\ users' = online
             /\ messages' = m.messages
             /\ appended' = appended + 1
             /\ resp' = [op |-> "join", status |-> 200, body |-> body,
                         user |-> a.ret, users |-> online,
                         messages |-> getMessages(m.messages)]
             /\ UNCHANGED <<now, issued>>
             /\ UNCHANGED svcVars

\* the paths of the send route that reach the store, and that create a record
SendAccepts(body) == ~body.malformed /\ Truthy(body.username) /\ Truthy(body.content)
SendCreates(body) ==
    SendAccepts(body) /\ ~Truthy(body.color) /\ findUser(users, body.username) = NoUser

\* POST /api/chat/messages
SendRoute(body, id, color, msgId) ==
    IF body.malformed THEN Rejected("send", body, "Invalid JSON")
    ELSE IF ~Truthy(body.username) \/ ~Truthy(body.content)
    THEN Rejected("send", body, "username and content required")
    ELSE LET user == findUser(users, body.username)
             create == ~Truthy(body.color) /\ user = NoUser
             a == addUser(users, body.username, id, color, now)
             messageColor == IF Truthy(body.color) THEN body.color
                             ELSE IF user # NoUser THEN user.color
                             ELSE a.ret.color
             m == addMessage(messages, msgId, body.username, body.content,
                             messageColor, "user", now)
         IN  /\ appended < Budget
             /\ users' = IF create THEN a.users ELSE users
             /\ messages' = m.messages
             /\ appended' = appended + 1
             /\ resp' = [op |-> "send", status |-> 200, body |-> body, data |-> m.ret]
             /\ UNCHANGED <<now, issued>>
             /\ UNCHANGED svcVars

\* messages.findIndex(m => m.id === lastMessageId), counted from 1; 0 if none
findIndex(ms, id) ==
    IF \E i \in 1..Len(ms) : ms[i].id = id
    THEN CHOOSE i \in 1..Len(ms) :
            /\ ms[i].id = id
            /\ \A j \in 1..(i - 1) : ms[j].id # id
    ELSE 0

\* the delta the poll route returns for a cursor
newMessages(ms, lastMessageId) ==
    IF Truthy(lastMessageId) /\ findIndex(ms, lastMessageId) # 0
    THEN SubSeq(ms, findIndex(ms, lastMessageId) + 1, Len(ms))
    ELSE ms

\* POST /api/chat/poll
PollRoute(body) ==
    IF body.malformed THEN Rejected("poll", body, "Invalid JSON")
    ELSE LET seen == IF Truthy(body.userId)
                     THEN updateUserSeen(users, body.userId, now)
                     ELSE IF Truthy(body.username) /\ findUser(users, body.username) # NoUser
                     THEN updateUserSeen(users, findUser(users, body.username).id, now)
                     ELSE users
             online == getOnlineUsers(seen, now)
         IN  /\ users' = online
             /\ resp' = [op |-> "poll", status |-> 200, body |-> body,
                         messages |-> newMessages(getMessages(messages), body.lastMessageId),
                         users |-> online,
                         stats |-> getStats(online, messages, now)]
             /\ UNCHANGED <<messages, now, issued, appended>>
             /\ UNCHANGED svcVars

\* the user a leave request resolves to
LeaveFinds(body) ==
    IF body.malformed THEN NoUser
    ELSE IF Truthy(body.userId) THEN getUser(users, body.userId)
    ELSE IF Truthy(body.username) THEN findUser(users, body.username)
    ELSE NoUser

\* POST /api/chat/leave
LeaveRoute(body, msgId) ==
    IF body.malformed THEN Rejected("leave", body, "Invalid JSON")
    ELSE LET user == LeaveFinds(body)
         IN  IF user = NoUser
             THEN /\ resp' = [op |-> "leave", status |-> 200, body |-> body, left |-> user]
                  /\ UNCHANGED <<users, messages, now, issued, appended>>
                  /\ UNCHANGED svcVars
             ELSE LET m == addSystemMessage(messages, msgId, user.username \o " left the chat", now)
                  IN  /\ appended < Budget
                      /\ users' = removeUser(users, user.id)
                      /\ messages' = m.messages
                      /\ appended' = appended + 1
                      /\ resp' = [op |-> "leave", status |-> 200, body |-> body, left |-> user]
                      /\ UNCHANGED <<now, issued>>
                      /\ UNCHANGED svcVars

\* GET /api/chat/stats
StatsRoute ==
    /\ users' = getOnlineUsers(users, now)
    /\ resp' = [op |-> "stats", status |-> 200, data |-> getStats(users, messages, now)]
    /\ UNCHANGED <<messages, now, issued, appended>>
    /\ UNCHANGED svcVars

\* GET /api/chat/messages
MessagesRoute ==
    /\ resp' = [op |-> "messages", status |-> 200,
                data |-> getMessages(messages), count |-> Len(getMessages(messages))]
    /\ UNCHANGED <<users, messages, now, issued, appended>>
    /\ UNCHANGED svcVars

\* The request bodies explored, for the usernames N
JoinBodies(N) == {BadBody} \cup {Body([username |-> u]) : u \in N \cup {"", Absent}}

SendBodies(N) ==
    {BadBody} \cup
    {Body([username |-> u, content |-> c, color |-> k]) :
        u \in N, c \in Contents, k \in {Absent, "#000000"}} \cup
    {Body([username |-> u, content |-> "hi", color |-> Absent]) : u \in {"", Absent}} \cup
    {Body([username |-> u, content |-> c, color |-> Absent]) : u \in N, c \in {"", Absent}}

\* cursors: none, the empty string, the ids the generator gives ("1" is also
\* the newest backlog entry), an older backlog entry and an id no message has
Cursors == {Absent, "", "1", "2", "zz"}

\* a poll names its caller or carries a cursor
PollBodies(N) ==
    {BadBody} \cup
    {Body([userId |-> i, username |-> u, lastMessageId |-> Absent]) :
        i \in {Absent, "", "1", "zz"}, u \in N \cup {Absent}} \cup
    {Body([userId |-> Absent, username |-> Absent, lastMessageId |-> c]) : c \in Cursors}

LeaveBodies(N) ==
    {BadBody} \cup
    {Body([userId |-> i, username |-> u]) :
        i \in {Absent, "", "1", "zz"}, u \in N \cup {Absent}}

\* One request is served once the previous response has been returned.
Join(N) ==
    /\ resp = None
    /\ UNCHANGED client
    /\ \E b \in JoinBodies(N) :
          \E id \in Drawn(JoinCreates(b), generateId),
             c \in Drawn(JoinCreates(b), getRandomColor),
             mid \in Drawn(JoinAccepts(b), generateId) :
                JoinRoute(b, id, c, mid)

Send(N) ==
    /\ resp = None
    /\ UNCHANGED client
    /\ \E b \in SendBodies(N) :
          \E id \in Drawn(SendCreates(b), generateId),
             c \in Drawn(SendCreates(b), getRandomColor),
             mid \in Drawn(SendAccepts(b), generateId) :
                SendRoute(b, id, c, mid)

Poll(N) ==
    /\ resp = None
    /\ UNCHANGED client
    /\ \E b \in PollBodies(N) : PollRoute(b)

Leave(N) ==
    /\ resp = None
    /\ UNCHANGED client
    /\ \E b \in LeaveBodies(N) :
          \E mid \in Drawn(LeaveFinds(b) # NoUser, generateId) : LeaveRoute(b, mid)

Stats ==
    /\ resp = None
    /\ UNCHANGED client
    /\ StatsRoute

Messages ==
    /\ resp = None
    /\ UNCHANGED client
    /\ MessagesRoute

NextPoll ==
    \/ Return
    \/ Elapse
    \/ Join(Names)
    \/ Send(Names)
    \/ Poll(Names)
    \/ Leave(Names)
    \/ Stats
    \/ Messages

SpecPoll == Init /\ [][NextPoll]_vars

----------------------------------------------------------------------------
\* The chat service (mini-services/chat-service/index.ts): Socket.IO handlers
\* and its HTTP API, on the service's own users map and messages array.

\* createSystemMessage that builds the notice with type 'user'
createSystemMessageAsUser(id, content, t) ==
    newMessage(id, "System", content, "#666666", "user", t)

\* createSystemMessage(content)
createSystemMessage(id, content, t) ==
    newMessage(id, "System", content, "#666666", "system", t)

\* createUserMessage(username, content, color)
createUserMessage(id, username, content, color, t) ==
    newMessage(id, username, content, color, "user", t)

\* addMessage(message) of the service
svcAddMessage(ms, message) ==
    LET pushed == Append(ms, message)
    IN  IF Len(pushed) > MAX_MESSAGES THEN Tail(pushed) ELSE pushed

\* io.on('connection'): the new socket is sent the current log
SvcConnection(s) ==
    /\ s \notin connected
    /\ connected' = connected \cup {s}
    /\ resp' = [op |-> "connection", socket |-> s, recent |-> svcMessages]
    /\ UNCHANGED <<svcUsers, svcMessages>>
    /\ UNCHANGED <<users, messages, now, issued, appended>>

\* socket.on('join')
SvcJoin(s, username, color, msgId) ==
    LET user == [id |-> s, username |-> username, color |-> color]
        joinMessage == createSystemMessage(msgId, username \o " joined the chat", now)
    IN  /\ s \in connected
        /\ appended < Budget
        /\ svcUsers' = MapSet(svcUsers, user)
        /\ svcMessages' = svcAddMessage(svcMessages, joinMessage)
        /\ appended' = appended + 1
        /\ resp' = [op |-> "svcJoin", socket |-> s, username |-> username,
                    user |-> user, broadcast |-> joinMessage, to |-> connected,
                    usersList |-> MapSet(svcUsers, user)]
        /\ UNCHANGED connected
        /\ UNCHANGED <<users, messages, now, issued>>

\* socket.on('message')
SvcMessage(s, content, msgId) ==
    LET user == getUser(svcUsers, s)
        accepted == user # NoUser /\ content # Absent /\ Truthy(trim(content))
        message == createUserMessage(msgId, user.username, trim(content), user.color, now)
    IN  /\ s \in connected
        /\ IF accepted
           THEN /\ appended < Budget
                /\ svcMessages' = svcAddMessage(svcMessages, message)
                /\ appended' = appended + 1
                /\ resp' = [op |-> "svcMessage", socket |-> s, content |-> content,
                            accepted |-> TRUE, broadcast |-> message, to |-> connected]
           ELSE /\ resp' = [op |-> "svcMessage", socket |-> s, content |-> content,
                            accepted |-> FALSE]
                /\ UNCHANGED <<svcMessages, appended>>
        /\ UNCHANGED <<svcUsers, connected>>
        /\ UNCHANGED <<users, messages, now, issued>>

\* socket.on('typing'): a transient notice to the other sockets
SvcTyping(s) ==
    /\ s \in connected
    /\ resp' = [op |-> "svcTyping", socket |-> s,
                to |-> IF getUser(svcUsers, s) # NoUser THEN connected \ {s} ELSE {}]
    /\ UNCHANGED svcVars
    /\ UNCHANGED <<users, messages, now, issued, appended>>

\* socket.on('disconnect')
SvcDisconnect(s, msgId) ==
    LET user == getUser(svcUsers, s)
        leaveMessage == createSystemMessage(msgId, user.username \o " left the chat", now)
    IN  /\ s \in connected
        /\ connected' = connected \ {s}
        /\ IF user # NoUser
           THEN /\ appended < Budget
                /\ svcUsers' = MapDelete(svcUsers, s)
                /\ svcMessages' = svcAddMessage(svcMessages, leaveMessage)
                /\ appended' = appended + 1
                /\ resp' = [op |-> "svcDisconnect", socket |-> s, left |-> user,
                            broadcast |-> leaveMessage, to |-> connected \ {s}]
           ELSE /\ resp' = [op |-> "svcDisconnect", socket |-> s, left |-> user]
                /\ UNCHANGED <<svcUsers, svcMessages, appended>>
        /\ UNCHANGED <<users, messages, now, issued>>

\* POST /api/message without the io.emit
SvcHttpMessageSilent(body, rcolor, msgId) ==
    IF body.malformed
    THEN /\ resp' = [op |-> "svcHttpMessage", status |-> 400, body |-> body,
                     error |-> "Invalid JSON"]
         /\ UNCHANGED svcVars
         /\ UNCHANGED <<users, messages, now, issued, appended>>
    ELSE IF ~Truthy(body.username) \/ ~Truthy(body.content)
    THEN /\ resp' = [op |-> "svcHttpMessage", status |-> 400, body |-> body,
                     error |-> "username and content required"]
         /\ UNCHANGED svcVars
         /\ UNCHANGED <<users, messages, now, issued, appended>>
    ELSE LET color == IF Truthy(body.color) THEN body.color ELSE rcolor
             message == createUserMessage(msgId, body.username, body.content, color, now)
         IN  /\ appended < Budget
             /\ svcMessages' = svcAddMessage(svcMessages, message)
             /\ appended' = appended + 1
             /\ resp' = [op |-> "svcHttpMessage", status |-> 200, body |-> body,
                         data |-> message]
             /\ UNCHANGED <<svcUsers, connected>>
             /\ UNCHANGED <<users, messages, now, issued>>

\* POST /api/message of the service
SvcHttpMessage(body, rcolor, msgId) ==
    IF body.malformed
    THEN /\ resp' = [op |-> "svcHttpMessage", status |-> 400, body |-> body,
                     error |-> "Invalid JSON"]
         /\ UNCHANGED svcVars
         /\ UNCHANGED <<users, messages, now, issued, appended>>
    ELSE IF ~Truthy(body.username) \/ ~Truthy(body.content)
    THEN /\ resp' = [op |-> "svcHttpMessage", status |-> 400, body |-> body,
                     error |-> "username and content required"]
         /\ UNCHANGED svcVars
         /\ UNCHANGED <<users, messages, now, issued, appended>>
    ELSE LET color == IF Truthy(body.color) THEN body.color ELSE rcolor
             message == createUserMessage(msgId, body.username, body.content, color, now)
         IN  /\ appended < Budget
             /\ svcMessages' = svcAddMessage(svcMessages, message)
             /\ appended' = appended + 1
             /\ resp' = [op |-> "svcHttpMessage", status |-> 200, body |-> body,
                         data |-> message, broadcast |-> message, to |-> connected]
             /\ UNCHANGED <<svcUsers, connected>>
             /\ UNCHANGED <<users, messages, now, issued>>

\* the contents a socket may send: text, padded text, blank, empty, none
SignalContents == {"hi", " hi ", " ", "", Absent}

\* One event is handled once the previous one has been answered.
Connect(S) ==
    /\ resp = None
    /\ UNCHANGED client
    /\ \E s \in S : SvcConnection(s)

SocketJoin(S, N) ==
    /\ resp = None
    /\ UNCHANGED client
    /\ \E s \in S, u \in N, c \in svcGetRandomColor, mid \in generateId :
          SvcJoin(s, u, c, mid)

SocketMessage(S) ==
    /\ resp = None
    /\ UNCHANGED client
    /\ \E s \in S, c \in SignalContents :
          \E mid \in Drawn(getUser(svcUsers, s) # NoUser /\ c # Absent /\ Truthy(trim(c)),
                           generateId) :
                SvcMessage(s, c, mid)

SocketTyping(S) ==
    /\ resp = None
    /\ UNCHANGED client
    /\ \E s \in S : SvcTyping(s)

Disconnect(S) ==
    /\ resp = None
    /\ UNCHANGED client
    /\ \E s \in S :
          \E mid \in Drawn(getUser(svcUsers, s) # NoUser, generateId) : SvcDisconnect(s, mid)

HttpMessage(N) ==
    /\ resp = None
    /\ UNCHANGED client
    /\ \E b \in SendBodies(N) :
          \E c \in Drawn(SendAccepts(b) /\ ~Truthy(b.color), svcGetRandomColor),
             mid \in Drawn(SendAccepts(b), generateId) :
                SvcHttpMessage(b, c, mid)

NextSvc ==
    \/ Return
    \/ Connect(Sockets)
    \/ SocketJoin(Sockets, Names)
    \/ SocketMessage(Sockets)
    \/ SocketTyping(Sockets)
    \/ Disconnect(Sockets)
    \/ HttpMessage(Names)

SpecSvc == Init /\ [][NextSvc]_vars

----------------------------------------------------------------------------
\* Both adapters running side by side, as in development: a browser talks to
\* the routes and to the chat service. One username and one socket are
\* explored.

Next ==
    \/ Return
    \/ Elapse
    \/ Join({"a"})
    \/ Send({"a"})
    \/ Poll({"a"})
    \/ Leave({"a"})
    \/ Stats
    \/ Messages
    \/ Connect({"s1"})
    \/ SocketJoin({"s1"}, {"a"})
    \/ SocketMessage({"s1"})
    \/ SocketTyping({"s1"})
    \/ Disconnect({"s1"})
    \/ HttpMessage({"a"})

Spec == Init /\ [][Next]_vars

----------------------------------------------------------------------------
\* The browser client (the ChatApp component): one tab, its React state and
\* refs as far as joining, sending and polling use them. A fetch and the
\* handling of its response are one step (no two requests of the tab overlap).

\* the socket id the server gives this tab's connection
TabSocket == "s2"

\* the WebSocket effect: with isWebSocketMode and isJoined it opens a socket
\* and keeps it in socketRef
wsEffect(c) ==
    IF c.isWebSocketMode /\ c.isJoined THEN [c EXCEPT !.socket = TabSocket] ELSE c

\* the polling effect runs its interval while this holds
polling(c) == ~c.isWebSocketMode /\ c.isJoined /\ Truthy(c.userId)

\* the polling effect: setIsConnected(true) and the interval
pollEffect(c) == IF polling(c) THEN [c EXCEPT !.isConnected = TRUE] ELSE c

\* both effects, run after a render that changed their dependencies
effects(c) == pollEffect(wsEffect(c))

\* allMessages.filter((msg, index, self) => index === self.findIndex(m => m.id === msg.id))
unique(q) ==
    LET kept == {i \in 1..Len(q) : \A j \in 1..(i - 1) : q[j].id # q[i].id}
        at(k) == CHOOSE i \in kept : Cardinality({j \in kept : j < i}) = k - 1
    IN  [k \in 1..Cardinality(kept) |-> q[at(k)]]

\* a handler that returned without a request, a signal or a state change
NoEffect(op, arg) ==
    /\ resp' = [op |-> op, arg |-> arg, done |-> FALSE]
    /\ UNCHANGED <<users, messages, now, issued, appended, client>>
    /\ UNCHANGED svcVars

\* the page is opened: first render and first run of the effects
mount(ws) ==
    /\ ~client.mounted
    /\ client' = effects([Unmounted EXCEPT !.mounted = TRUE, !.isWebSocketMode = ws])
    /\ UNCHANGED <<users, messages, now, resp, issued, appended>>
    /\ UNCHANGED svcVars

\* onChange of the nickname input, shown while not joined
setUsername(u) ==
    /\ client.mounted
    /\ ~client.isJoined
    /\ client.username # u
    /\ client' = [client EXCEPT !.username = u]
    /\ UNCHANGED <<users, messages, now, resp, issued, appended>>
    /\ UNCHANGED svcVars

\* a request slot is free
canFetch(c) == \E k \in 1..MaxInFlight : c.inFlight[k] = Free

\* fetch(url, {method: 'POST', body}): the request leaves the tab and the
\* handler that awaits it yields
fetch(c, url, body) ==
    LET k == CHOOSE i \in 1..MaxInFlight :
                 c.inFlight[i] = Free /\ \A j \in 1..(i - 1) : c.inFlight[j] # Free
    IN  [c EXCEPT !.inFlight[k] = [state |-> "sent", url |-> url, body |-> body]]

\* the request handleJoin sends in polling mode
JoinBody == Body([username |-> trim(client.username)])

\* handleJoin, on the Join button of the nickname form, up to its await fetch
handleJoin(svcColor, msgId) ==
    /\ client.mounted
    /\ ~client.isJoined
    /\ IF ~Truthy(trim(client.username)) THEN NoEffect("handleJoin", client.username)
       ELSE IF client.isWebSocketMode
       THEN IF client.socket # Absent
            THEN /\ SvcJoin(client.socket, trim(client.username), svcColor, msgId)
                 /\ client' = effects([client EXCEPT !.isJoined = TRUE,
                                                     !.isConnected = TRUE])
            ELSE NoEffect("handleJoin", client.username)
       ELSE /\ canFetch(client)
            /\ client.posted < MaxPosts
            /\ client' = fetch([client EXCEPT !.posted = @ + 1], "/api/chat/join", JoinBody)
            /\ UNCHANGED <<users, messages, now, resp, issued, appended>>
            /\ UNCHANGED svcVars

\* handleJoin after await res.json(), with the answer a of the join route; an
\* answer without data throws at data.user and the catch leaves the state alone
handleJoinAnswer(c, a) ==
    IF a.status # 200 THEN c
    ELSE effects([c EXCEPT
                     !.userId = a.user.id,
                     !.messages = a.messages,
                     !.isJoined = TRUE,
                     !.isConnected = TRUE,
                     !.lastMessageId = IF Len(a.messages) > 0
                                       THEN a.messages[Len(a.messages)].id
                                       ELSE @])

\* the request sendMessage sends in polling mode
SendBody(content) ==
    Body([username |-> client.username, content |-> trim(content), color |-> Absent])

\* sendMessage, on Enter or the Send button, with the text of the input, up to
\* its await fetch
sendMessage(content, msgId) ==
    /\ client.mounted
    /\ IF ~Truthy(trim(content)) \/ ~client.isJoined THEN NoEffect("sendMessage", content)
       ELSE IF client.isWebSocketMode
       THEN IF client.socket # Absent
            THEN /\ SvcMessage(client.socket, trim(content), msgId)
                 /\ UNCHANGED client
            ELSE NoEffect("sendMessage", content)
       ELSE /\ canFetch(client)
            /\ client.posted < MaxPosts
            /\ client' = fetch([client EXCEPT !.posted = @ + 1],
                               "/api/chat/messages", SendBody(content))
            /\ UNCHANGED <<users, messages, now, resp, issued, appended>>
            /\ UNCHANGED svcVars

\* sendMessage after await res.json(): lastMessageIdRef.current = data.id
sendMessageAnswer(c, a) ==
    IF a.status # 200 THEN c ELSE [c EXCEPT !.lastMessageId = a.data.id]

\* the request the interval callback sends
PollBody ==
    Body([userId |-> client.userId, username |-> client.username,
          lastMessageId |-> client.lastMessageId])

\* the setInterval callback of the polling effect, up to its await fetch
pollInterval ==
    /\ client.mounted
    /\ polling(client)
    /\ canFetch(client)
    /\ client' = fetch(client, "/api/chat/poll", PollBody)
    /\ UNCHANGED <<users, messages, now, resp, issued, appended>>
    /\ UNCHANGED svcVars

\* the interval callback after await res.json()
pollAnswer(c, a) ==
    IF a.status # 200 THEN c
    ELSE IF Len(a.messages) > 0
    THEN [c EXCEPT !.messages = unique(@ \o a.messages),
                   !.lastMessageId = a.messages[Len(a.messages)].id]
    ELSE c

\* the server handles the request in slot k; its response is on the way back
serve(k, id, color, msgId) ==
    LET r == client.inFlight[k]
    IN  /\ r.state = "sent"
        /\ IF r.url = "/api/chat/join" THEN JoinRoute(r.body, id, color, msgId)
           ELSE IF r.url = "/api/chat/messages" THEN SendRoute(r.body, id, color, msgId)
           ELSE PollRoute(r.body)
        /\ client' = [client EXCEPT !.inFlight[k] =
                         [state |-> "served", url |-> r.url, body |-> r.body,
                          answer |-> resp']]

\* the response in slot k reaches the tab and the handler that awaited it resumes
answer(k) ==
    LET r == client.inFlight[k]
        c == [client EXCEPT !.inFlight[k] = Free]
    IN  /\ r.state = "served"
        /\ client' = IF r.url = "/api/chat/join" THEN handleJoinAnswer(c, r.answer)
                     ELSE IF r.url = "/api/chat/messages" THEN sendMessageAnswer(c, r.answer)
                     ELSE pollAnswer(c, r.answer)
        /\ UNCHANGED <<users, messages, now, resp, issued, appended>>
        /\ UNCHANGED svcVars

\* what the user of the tab does, the tab's timer, the server and the network,
\* and other clients' posts
Open == resp = None /\ \E ws \in BOOLEAN : mount(ws)

TypeName == resp = None /\ \E u \in {"", " ", "a"} : setUsername(u)

PressJoin ==
    /\ resp = None
    /\ \E k \in Drawn(client.isWebSocketMode /\ client.socket # Absent, svcGetRandomColor),
          mid \in Drawn(client.isWebSocketMode /\ client.socket # Absent, generateId) :
             handleJoin(k, mid)

PressSend ==
    /\ resp = None
    /\ \E t \in Contents :
          \E mid \in Drawn(client.isWebSocketMode /\ client.socket # Absent, generateId) :
             sendMessage(t, mid)

PollTimer == resp = None /\ pollInterval

creates(r) ==
    \/ r.url = "/api/chat/join" /\ JoinCreates(r.body)
    \/ r.url = "/api/chat/messages" /\ SendCreates(r.body)

appends(r) ==
    \/ r.url = "/api/chat/join" /\ JoinAccepts(r.body)
    \/ r.url = "/api/chat/messages" /\ SendAccepts(r.body)

Serve ==
    /\ resp = None
    /\ \E k \in 1..MaxInFlight :
          /\ client.inFlight[k].state = "sent"
          /\ \E id \in Drawn(creates(client.inFlight[k]), generateId),
                c \in Drawn(creates(client.inFlight[k]), getRandomColor),
                mid \in Drawn(appends(client.inFlight[k]), generateId) :
                   serve(k, id, c, mid)

Answer == resp = None /\ \E k \in 1..MaxInFlight : answer(k)

\* the post of another client, which names its color
OtherPost ==
    /\ resp = None
    /\ UNCHANGED client
    /\ \E mid \in generateId :
          SendRoute(Body([username |-> "b", content |-> "hi", color |-> "#000000"]),
                    CHOOSE id \in generateId : TRUE,
                    CHOOSE c \in getRandomColor : TRUE, mid)

NextClient ==
    \/ Return
    \/ Elapse
    \/ Open
    \/ TypeName
    \/ PressJoin
    \/ PressSend
    \/ PollTimer
    \/ Serve
    \/ Answer
    \/ OtherPost

\* the server has just started and the page has not been opened yet
InitClient == Init /\ messages = <<>> /\ users = <<>>

\* every handler that can run does run: the timer fires, requests are served
\* and answered, and the user keeps acting
SpecClient == InitClient /\ [][NextClient]_vars /\ WF_vars(NextClient)

----------------------------------------------------------------------------
\* Properties

Range(q) == {q[i] : i \in 1..Len(q)}
Last(q) == q[Len(q)]

\* new is old with one entry pushed at the end, the oldest entry of a full
\* log (100 entries) dropped and every other entry kept in place
Pushed(old, new) ==
    /\ Len(new) >= 1
    /\ new = IF Len(old) = 100 THEN Tail(old) \o <<Last(new)>> ELSE old \o <<Last(new)>>

C1_LogStep ==
    /\ Len(getMessages(messages')) <= 100
    /\ Len(svcMessages') <= 100
    /\ appended' = appended => messages' = messages /\ svcMessages' = svcMessages
    /\ appended' # appended =>
          \/ Pushed(messages, messages') /\ svcMessages' = svcMessages
          \/ Pushed(svcMessages, svcMessages') /\ messages' = messages

\* C1: every addMessage call, of the store and of the chat service alike,
\* leaves its log as the previous log with the new message at the end, never
\* longer than 100 entries; a push onto a log of 100 entries drops exactly the
\* oldest entry, a push onto a shorter log drops nothing, and no other step
\* changes a log.
C1_BoundedFifoLog == [][C1_LogStep]_vars

\* C1 witness: a push onto the full store log has evicted its oldest entry.
C1_Evicted ==
    /\ resp # None
    /\ Len(messages) = 100
    /\ messages[1] = Backlog[2]
    /\ Last(messages) # Last(Backlog)

C2_SecondCall == resp'.op = "addUser" /\ issued[resp'.username] # NoUser

C2_SameRecord ==
    /\ resp'.ret.id = issued[resp'.username].id
    /\ resp'.ret.lastSeen >= issued[resp'.username].lastSeen

C2_StillStored ==
    /\ getUser(users, issued[resp'.username].id) # NoUser
    /\ getUser(users, issued[resp'.username].id).username = resp'.username

\* C2 as stated: a second addUser(u) with no removeUser since the first returns
\* the id the first returned and a lastSeen at least as late, whatever
\* operations and time passed in between.
C2_SameIdWhateverHappens == [][C2_SecondCall => C2_SameRecord]_vars

\* C2 amended: a second addUser(u) with no removeUser since the first returns
\* the id the first returned and a lastSeen at least as late, provided the
\* record the first call returned is still in the store (no expiry sweep and
\* no insert under the same id has deleted it).
C2_SameIdWhileStored == [][C2_SecondCall /\ C2_StillStored => C2_SameRecord]_vars

\* C2 witness: addUser found the record of an earlier call and refreshed it
\* after time had passed.
C2_Refreshed ==
    /\ resp.op = "addUser"
    /\ resp.existing
    /\ resp.ret.lastSeen = now
    /\ now > Timeout

C3_SweepStep ==
    resp'.op = "getOnlineUsers" =>
        /\ \A i \in 1..Len(resp'.ret) : now - resp'.ret[i].lastSeen <= 30000
        /\ \A i \in 1..Len(users) :
              now - users[i].lastSeen > 30000 => getUser(users', users[i].id) = NoUser

\* C3: getOnlineUsers returns no user last seen more than 30000 ms before the
\* call, and every such user is gone from the store when it returns: getUser
\* for its id gives no record.
C3_SweepDeletesStale == [][C3_SweepStep]_vars

\* C3 witness: getOnlineUsers has just deleted a user that addUser had
\* returned more than 30 s earlier.
C3_Swept ==
    /\ resp.op = "getOnlineUsers"
    /\ \E n \in Names :
          /\ issued[n] # NoUser
          /\ now - issued[n].lastSeen > 30000
          /\ getUser(users, issued[n].id) = NoUser

UserEntries(ms) == Cardinality({i \in 1..Len(ms) : ms[i].type = "user"})

StatsAgree(st) ==
    /\ st.totalMessages = Len(getMessages(messages))
    /\ st.userMessages = UserEntries(getMessages(messages))
    /\ st.userMessages <= st.totalMessages
    /\ st.totalMessages <= 100

\* C4: the stats computed in any reachable state, and the stats the stats
\* route and the poll route return, have totalMessages equal to the length of
\* the log and userMessages equal to the number of entries of type "user",
\* with userMessages <= totalMessages <= 100.
C4_StatsMatchLog ==
    /\ StatsAgree(getStats(users, messages, now))
    /\ resp.op = "stats" => StatsAgree(resp.data)
    /\ resp.op = "poll" /\ resp.status = 200 => StatsAgree(resp.stats)

\* C4 witness: the stats route answered on a log holding both user and
\* system entries.
C4_MixedStats ==
    /\ resp.op = "stats"
    /\ resp.data.userMessages > 0
    /\ resp.data.userMessages < resp.data.totalMessages

\* C5 as stated: a poll whose cursor is the id of a message in the log
\* returns exactly the entries after that message; a poll with no cursor, an
\* empty cursor or a cursor matching no entry returns the whole log.
C5_PollDelta ==
    resp.op = "poll" /\ resp.status = 200 =>
        LET c == resp.body.lastMessageId
        IN  /\ \A i \in 1..Len(messages) :
                  Truthy(c) /\ messages[i].id = c =>
                      resp.messages = SubSeq(messages, i + 1, Len(messages))
            /\ (~Truthy(c) \/ \A i \in 1..Len(messages) : messages[i].id # c) =>
                  resp.messages = messages

C6_RemoveStep ==
    resp'.op = "removeUser" =>
        /\ messages' = messages
        /\ \A u \in Range(users) : u.id # resp'.userId => u \in Range(users')
        /\ \A u \in Range(users') : u \in Range(users) /\ u.id # resp'.userId
        /\ Len(users') = Cardinality({i \in 1..Len(users) : users[i].id # resp'.userId})
        /\ getUser(users, resp'.userId) = NoUser => users' = users

\* C6: removeUser(id) deletes the record stored under id and nothing else:
\* every other record and the log stay as they were, and with no record under
\* id (as on a repeated call) the user set stays as it was.
C6_RemoveIsExact == [][C6_RemoveStep]_vars

\* C6 witness: removeUser has deleted a record and another user is still in
\* the store.
C6_RemovedOne ==
    /\ resp.op = "removeUser"
    /\ resp.deleted
    /\ Len(users) = 1

\* C7 as stated: no two entries of the log carry the same id.
C7_UniqueMessageIds ==
    \A i, j \in 1..Len(messages) : i < j => messages[i].id # messages[j].id

C8_InsertStep ==
    (resp'.op = "addUser" /\ findUser(users, resp'.username) = NoUser) =>
        /\ Len(users') = Len(users) + 1
        /\ \A u \in Range(users) : u \in Range(users')
        /\ getUser(users, resp'.ret.id) = NoUser
        /\ resp'.ret \in Range(users')
        /\ resp'.ret.username = resp'.username
        /\ resp'.ret.lastSeen = now

\* C8 as stated: addUser with a username no record carries adds exactly one
\* record, under an id no existing user has, and keeps every earlier record.
C8_InsertDisplacesNone == [][C8_InsertStep]_vars

\* C9 as stated: what one adapter joined or sent, the other adapter shows: a
\* user joined over a socket is in the store's online users and a user joined
\* over the join route is in the service's user list; a message accepted over
\* a socket is in the store's log and a message sent over the send route is in
\* the service's log.
C9_AdaptersShareState ==
    /\ resp.op = "svcJoin" =>
          findUser(getOnlineUsers(users, now), resp.username) # NoUser
    /\ resp.op = "join" /\ resp.status = 200 =>
          findUser(svcUsers, resp.body.username) # NoUser
    /\ resp.op = "svcMessage" /\ resp.accepted =>
          resp.broadcast \in Range(getMessages(messages))
    /\ resp.op = "send" /\ resp.status = 200 =>
          resp.data \in Range(svcMessages)

C10_Notice(u) ==
    [username |-> "System", content |-> u \o " joined the chat", type |-> "system"]

C10_IsNotice(m, u) ==
    [username |-> m.username, content |-> m.content, type |-> m.type] = C10_Notice(u)

C10_JoinStep ==
    (resp'.op = "join" /\ ~resp'.body.malformed /\ Truthy(resp'.body.username)) =>
        LET u == resp'.body.username
        IN  /\ resp'.status = 200
            /\ findUser(users', u) # NoUser
            /\ findUser(resp'.users, u) # NoUser
            /\ resp'.user = findUser(users', u)
            /\ Pushed(messages, messages')
            /\ C10_IsNotice(Last(messages'), u)
            /\ resp'.messages = messages'
            /\ (users = <<>> /\ messages = <<>>) =>
                  Len(resp'.users) = 1 /\ Len(users') = 1 /\ Len(messages') = 1

\* C10: a join request with a non-empty username u succeeds; afterwards a
\* record with username u is in the store and in the returned user list, the
\* log is the previous log with one entry pushed (the oldest dropped if it
\* held 100), that entry is the system message "<u> joined the chat" by
\* "System", the returned messages are that log, and a join into an empty
\* store leaves one user and one log entry.
C10_JoinAnnounces == [][C10_JoinStep]_vars

\* C10 witness: a join into an empty store answered with one user and one
\* message.
C10_FirstJoin ==
    /\ resp.op = "join"
    /\ resp.status = 200
    /\ Len(resp.users) = 1
    /\ Len(resp.messages) = 1
    /\ Len(messages) = 1

\* the record, if any, that a join, send or poll request is made on behalf of
C11_Caller(r) ==
    IF r.op = "poll" /\ Truthy(r.body.userId) THEN getUser(users, r.body.userId)
    ELSE findUser(users, r.body.username)

C11_SeenStep ==
    (resp'.op \in {"join", "send", "poll"} /\ resp'.status = 200
        /\ C11_Caller(resp') # NoUser) =>
            /\ getUser(users', C11_Caller(resp').id) # NoUser
            /\ getUser(users', C11_Caller(resp').id).lastSeen = now

\* C11 as stated: after a join, a poll or a send made by a user who has a
\* record in the store, that record's lastSeen is the time of the request.
C11_InteractionRefreshes == [][C11_SeenStep]_vars

C12_Filled(ms) == \A i \in 1..Len(ms) : Truthy(trim(ms[i].content))

\* C12 as stated: whatever the routes, the socket handlers and the service's
\* HTTP API have accepted, no entry of either log has a content that is empty
\* or only whitespace.
C12_NoBlankContent == C12_Filled(messages) /\ C12_Filled(svcMessages)

C13_Invalid(r) ==
    /\ r.op \in {"join", "send", "poll", "leave"}
    /\ \/ r.body.malformed
       \/ r.op = "join" /\ ~(r.body.username # Absent /\ r.body.username # "")
       \/ r.op = "send" /\ ~(r.body.username # Absent /\ r.body.username # "")
       \/ r.op = "send" /\ ~(r.body.content # Absent /\ r.body.content # "")

C13_RejectStep ==
    C13_Invalid(resp') =>
        /\ resp'.status = 400
        /\ users' = users
        /\ messages' = messages

\* C13: a join without a username (missing or empty), a send without a
\* username or without a content, and any request to the join, send, poll or
\* leave route whose body does not parse are answered with status 400, and the
\* store's users and log are after the request what they were before it.
C13_InvalidRejected == [][C13_RejectStep]_vars

\* C13 witness: a send with an empty content was answered 400 while the store
\* held a user and a full log.
C13_RejectedSend ==
    /\ resp.op = "send"
    /\ resp.status = 400
    /\ ~resp.body.malformed
    /\ resp.body.username = "a"
    /\ resp.body.content = ""
    /\ Len(users) = 1
    /\ Len(messages) = 100

C14_SendStep ==
    (resp'.op = "send" /\ resp'.status = 200) =>
        /\ findUser(users', resp'.body.username) # NoUser
        /\ Len(messages') >= 1
        /\ Last(messages').type = "user"
        /\ Last(messages').username = resp'.body.username
        /\ Last(messages').content = resp'.body.content

\* C14 as stated: after a send answered 200 for username u, with or without a
\* color in the body, the store holds a record with username u and the last
\* entry of the log is the message of type "user" by u with the content sent.
C14_SendResolvesSender == [][C14_SendStep]_vars

\* the user a leave body identifies: the one stored under its userId, or else
\* the one carrying its username
C15_Named(body) ==
    IF body.userId # Absent /\ getUser(users, body.userId) # NoUser
    THEN getUser(users, body.userId)
    ELSE IF body.username # Absent THEN findUser(users, body.username)
    ELSE NoUser

C15_LeaveStep ==
    (resp'.op = "leave" /\ ~resp'.body.malformed) =>
        /\ resp'.status = 200
        /\ C15_Named(resp'.body) = NoUser => users' = users /\ messages' = messages
        /\ C15_Named(resp'.body) # NoUser =>
              /\ users' = removeUser(users, C15_Named(resp'.body).id)
              /\ Pushed(messages, messages')
              /\ Last(messages').type = "system"
              /\ Last(messages').content = C15_Named(resp'.body).username \o " left the chat"

\* C15 as stated: a leave request whose userId or username identifies a stored
\* user (a userId matching nobody next to a username that matches included)
\* removes that user and pushes exactly one system message "<username> left
\* the chat"; a leave request identifying nobody changes neither the users nor
\* the log; either way the answer is a success.
C15_LeaveRemovesNamed == [][C15_LeaveStep]_vars

C16_Keeps(us1, us2) ==
    \A i \in 1..Len(us1) :
        /\ getUser(us2, us1[i].id) # NoUser
        /\ getUser(us2, us1[i].id).username = us1[i].username

C16_FrameStep ==
    /\ resp'.op \in {"addUser", "getUser", "updateUserSeen", "addMessage",
                     "addSystemMessage", "getMessages"} => C16_Keeps(users, users')
    /\ resp'.op = "getUser" => resp'.ret = getUser(users, resp'.userId)
    /\ (resp'.op = "updateUserSeen" /\ getUser(users, resp'.userId) # NoUser) =>
          ~Stale(getUser(users', resp'.userId), now)
    /\ (resp'.op = "addUser" /\ findUser(users, resp'.username) # NoUser) =>
          ~Stale(findUser(users', resp'.username), now)

\* C16 as stated: addUser, getUser, updateUserSeen, addMessage,
\* addSystemMessage and getMessages delete no user record, however old its
\* lastSeen; getUser returns such a record, and updateUserSeen or addUser
\* on it makes it fresh again, so that the next sweep keeps it.
C16_OnlySweepReclaims == [][C16_FrameStep]_vars

C17_PureStep ==
    /\ resp'.op \in {"getUser", "getMessages"} => users' = users /\ messages' = messages
    /\ resp'.op = "updateUserSeen" =>
          /\ messages' = messages
          /\ Len(users') = Len(users)
          /\ \A i \in 1..Len(users) :
                IF users[i].id = resp'.userId
                THEN users'[i] = [users[i] EXCEPT !.lastSeen = now]
                ELSE users'[i] = users[i]

\* C17: getUser and getMessages change neither the users nor the log;
\* updateUserSeen(id) never changes the log or the number of records, leaves
\* every record stored under another id as it was (so with no record under id
\* nothing changes and none is created), and sets the lastSeen of the record
\* under id to the current time, changing no other field of it.
C17_LookupsArePure == [][C17_PureStep]_vars

\* C17 witness: updateUserSeen has refreshed one of two records after the
\* presence timeout, and the other still has its old lastSeen.
C17_RefreshedOne ==
    /\ resp.op = "updateUserSeen"
    /\ Len(users) = 2
    /\ now >= Timeout
    /\ getUser(users, resp.userId) # NoUser
    /\ getUser(users, resp.userId).lastSeen = now
    /\ \E i \in 1..2 : users[i].lastSeen = 0

C18_Fresh(u) == now - u.lastSeen <= 30000

C18_StatsStep ==
    resp'.op = "getStats" =>
        /\ resp'.ret.onlineUsers = Cardinality({i \in 1..Len(users) : C18_Fresh(users[i])})
        /\ \A i \in 1..Len(users') : C18_Fresh(users'[i])
        /\ \A i \in 1..Len(users) : C18_Fresh(users[i]) => users[i] \in Range(users')

\* C18: the onlineUsers that getStats returns is the number of records whose
\* lastSeen is at most 30000 ms before the call (30000 itself included), and
\* when it returns the store holds none of the older records and all of the
\* others.
C18_StatsSweeps == [][C18_StatsStep]_vars

\* C18 witness: getStats, called exactly 30000 ms after the only user was last
\* seen, counted that user and kept its record.
C18_CountedAtBoundary ==
    /\ resp.op = "getStats"
    /\ resp.ret.onlineUsers = 1
    /\ Len(users) = 1
    /\ now - users[1].lastSeen = 30000

\* the record a poll names: the one under its userId, or, when it carries no
\* userId, the one with its username
C19_Caller(body) ==
    IF body.userId # Absent THEN getUser(users, body.userId)
    ELSE IF body.username # Absent THEN findUser(users, body.username)
    ELSE NoUser

C19_PollStep ==
    (resp'.op = "poll" /\ resp'.status = 200 /\ C19_Caller(resp'.body) # NoUser) =>
        LET refreshed == [C19_Caller(resp'.body) EXCEPT !.lastSeen = now]
        IN  /\ refreshed \in Range(resp'.users)
            /\ refreshed \in Range(users')

\* a sweep (in poll and stats, and in join after the joiner's record is set)
\* keeps every record last seen within the presence timeout
C19_SweepStep ==
    /\ resp'.op \in {"poll", "stats"} =>
          \A i \in 1..Len(users) :
              now - users[i].lastSeen <= 30000 => getUser(users', users[i].id) # NoUser
    /\ (resp'.op = "join" /\ resp'.status = 200) =>
          \A i \in 1..Len(users) :
              (now - users[i].lastSeen <= 30000 /\ users[i].id # resp'.user.id) =>
                  users[i] \in Range(users')

\* no request sets the lastSeen of a record back
C19_NoRewind ==
    \A i \in 1..Len(users) :
        LET after == getUser(users', users[i].id)
        IN  (after # NoUser /\ after.username = users[i].username) =>
                after.lastSeen >= users[i].lastSeen

\* C19 as stated: a poll naming a stored user (by userId, or by username when it carries
\* no userId) sets that record's lastSeen to the time of the poll before it
\* sweeps, so the record, however old, is in the users the poll returns and
\* in the store afterwards; no request sets a lastSeen back, and no sweep
\* removes a record last seen within the past 30 seconds: whatever other
\* requests come in between, no sweep removes a user who polls more often
\* than that.
C19_PollKeepsAlive == [][C19_PollStep /\ C19_SweepStep /\ C19_NoRewind]_vars

\* a content that is missing, empty or only whitespace
C20_Blank(c) == c \in {Absent, "", " "}

\* a content without the whitespace around it
C20_Trimmed(c) == IF c = " hi " THEN "hi" ELSE c

C20_MessageStep ==
    resp'.op = "svcMessage" =>
        LET user == getUser(svcUsers, resp'.socket)
        IN  /\ resp'.accepted <=> (user # NoUser /\ ~C20_Blank(resp'.content))
            /\ svcUsers' = svcUsers
            /\ ~resp'.accepted =>
                  /\ svcMessages' = svcMessages
                  /\ "broadcast" \notin DOMAIN resp'
            /\ resp'.accepted =>
                  /\ Pushed(svcMessages, svcMessages')
                  /\ Last(svcMessages').content = C20_Trimmed(resp'.content)
                  /\ Last(svcMessages').username = user.username
                  /\ Last(svcMessages').color = user.color
                  /\ Last(svcMessages').type = "user"
                  /\ resp'.broadcast = Last(svcMessages')
                  /\ resp'.to = connected

\* C20: the chat service accepts a 'message' signal exactly when the socket
\* has a user record and the content is not missing, empty or only
\* whitespace. A signal it does not accept changes neither its log nor its
\* users and is not broadcast; an accepted one is pushed onto the log with the
\* content trimmed, the username and color of the socket's user and type
\* "user", and is broadcast to every connected socket.
C20_SignalNeedsUserAndText == [][C20_MessageStep]_vars

\* C20 witness: a joined socket sent " hi " and the log ends with "hi" under
\* the user's name.
C20_StoredTrimmed ==
    /\ resp.op = "svcMessage"
    /\ resp.accepted
    /\ resp.content = " hi "
    /\ Last(svcMessages).content = "hi"
    /\ Last(svcMessages).username = SvcJoined.username
    /\ resp.socket \in resp.to

C21_OwnedBySession ==
    /\ \A i \in 1..Len(svcUsers) : svcUsers[i].id \in connected
    /\ \A i, j \in 1..Len(svcUsers) : i < j => svcUsers[i].id # svcUsers[j].id

C21_SessionStep ==
    /\ \A i \in 1..Len(svcUsers') :
          getUser(svcUsers, svcUsers'[i].id) = NoUser =>
              resp'.op = "svcJoin" /\ resp'.socket = svcUsers'[i].id
    /\ resp'.op = "svcDisconnect" =>
          /\ getUser(svcUsers', resp'.socket) = NoUser
          /\ resp'.socket \notin connected'

\* C21: in the chat service every record of the user map is stored under the
\* id of a socket that is connected, one record per id; a record appears under
\* an id only through a join of that socket, and after a socket's disconnect
\* no record is left under its id.
C21_RecordsFollowSessions == []C21_OwnedBySession /\ [][C21_SessionStep]_vars

\* C21 witness: the joined socket has disconnected and its record is gone.
C21_SessionEnded ==
    /\ resp.op = "svcDisconnect"
    /\ resp.left = SvcJoined
    /\ resp.socket \notin connected
    /\ getUser(svcUsers, resp.socket) = NoUser

\* C22 as stated: the chat service's user map never holds two records with
\* the same username; a join carrying a username that a record of another
\* socket already has adds no second record.
C22_OneRecordPerName ==
    \A i, j \in 1..Len(svcUsers) : i < j => svcUsers[i].username # svcUsers[j].username

C23_ColorStep ==
    /\ \A i \in 1..Len(users) :
          LET after == getUser(users', users[i].id)
          IN  (after # NoUser /\ after.username = users[i].username) =>
                  after.color = users[i].color
    /\ \A i \in 1..Len(svcUsers) :
          LET after == getUser(svcUsers', svcUsers[i].id)
          IN  after # NoUser => after.color = svcUsers[i].color

\* C23 as stated: whatever request or signal is handled, a user record that
\* is still there afterwards (in the store, the record of the same user; in
\* the chat service, the record of the same socket) has the color it had
\* before.
C23_ColorIsFixed == [][C23_ColorStep]_vars

C24_DisconnectStep ==
    resp'.op = "svcDisconnect" =>
        LET user == getUser(svcUsers, resp'.socket)
        IN  /\ resp'.socket \notin connected'
            /\ user = NoUser =>
                  /\ svcMessages' = svcMessages
                  /\ svcUsers' = svcUsers
                  /\ "broadcast" \notin DOMAIN resp'
            /\ user # NoUser =>
                  /\ getUser(svcUsers', resp'.socket) = NoUser
                  /\ Len(svcUsers') = Len(svcUsers) - 1
                  /\ Pushed(svcMessages, svcMessages')
                  /\ Last(svcMessages').type = "system"
                  /\ Last(svcMessages').username = "System"
                  /\ Last(svcMessages').content = user.username \o " left the chat"
                  /\ resp'.broadcast = Last(svcMessages')
                  /\ resp'.to = connected'

\* C24: the disconnect of a socket that has a user record deletes that
\* record, pushes exactly one system message "<username> left the chat" and
\* broadcasts it to the sockets still connected; the disconnect of a socket
\* without a record changes neither the log nor the users and broadcasts
\* nothing. Either way the socket is gone, so no second notice can follow.
C24_OneLeaveNotice == [][C24_DisconnectStep]_vars

\* C24 witness: the joined socket disconnected while another socket was
\* connected, and that socket was sent the notice "a left the chat".
C24_LeftAnnounced ==
    /\ resp.op = "svcDisconnect"
    /\ resp.left = SvcJoined
    /\ Last(svcMessages).content = "a left the chat"
    /\ resp.to = {"s2"}

C25_PushStep ==
    /\ svcMessages' # svcMessages =>
          /\ Pushed(svcMessages, svcMessages')
          /\ "broadcast" \in DOMAIN resp'
          /\ resp'.broadcast = Last(svcMessages')
          /\ resp'.to = connected'
    /\ resp'.op = "connection" =>
          /\ resp'.recent = svcMessages
          /\ svcMessages' = svcMessages

\* C25: every change of the chat service's log is one push, and the step that
\* makes it broadcasts the pushed message to every socket connected (join
\* notice, socket message, HTTP message, leave notice); a connecting socket is
\* sent the log as it is. A socket that stays connected has thus been sent,
\* in log order, the log at its connection and every message pushed since.
C25_EveryPushBroadcast == [][C25_PushStep]_vars

\* C25 witness: a message posted to the service's HTTP API was pushed onto
\* the full log and broadcast to the two connected sockets.
C25_HttpPushBroadcast ==
    /\ resp.op = "svcHttpMessage"
    /\ resp.status = 200
    /\ resp.broadcast = Last(svcMessages)
    /\ resp.to = {"s1", "s2"}
    /\ Len(svcMessages) = 100

\* C26 (requests interleave only at the await of request.json(), before the
\* handler touches the store, so each handler runs on the store as one step,
\* in any order): in every state the polling routes can reach, no two
\* records of the store have the same username and no two the same id; a
\* join with the username of a stored record adds no record.
C26_OneRecordPerUser ==
    /\ \A i, j \in 1..Len(users) : i < j => users[i].username # users[j].username
    /\ \A i, j \in 1..Len(users) : i < j => users[i].id # users[j].id
    /\ (resp.op = "join" /\ resp.status = 200) =>
          Cardinality({i \in 1..Len(users) : users[i].username = resp.body.username}) = 1

\* C26 witness: a second join as "a", after the presence timeout, was answered
\* with the record of the first join, and the store holds that one record.
C26_JoinedTwice ==
    /\ resp.op = "join"
    /\ resp.status = 200
    /\ resp.user = [Joined EXCEPT !.lastSeen = now]
    /\ now >= Timeout
    /\ users = <<resp.user>>

\* C27 as stated: whenever the tab polls with a cursor that is the id of a
\* message in the store's log, every entry of the log up to and including
\* that message is in the list the tab displays.
C27_CursorMarksSeen ==
    (resp.op = "poll" /\ resp.status = 200 /\ Truthy(resp.body.lastMessageId)
        /\ findIndex(messages, resp.body.lastMessageId) # 0) =>
            \A i \in 1..findIndex(messages, resp.body.lastMessageId) :
                messages[i] \in Range(client.messages)

C28_Submitted ==
    /\ resp.op = "handleJoin"
    /\ client.isWebSocketMode
    /\ Truthy(trim(client.username))

C28_Joined ==
    /\ client.isJoined
    /\ client.socket # Absent
    /\ getUser(svcUsers, client.socket) # NoUser

\* C28 as stated: in WebSocket mode, once handleJoin has been called with a
\* non-empty nickname, the tab eventually has a socket, has sent its join to
\* the chat service, and is joined.
C28_EventuallyJoined == C28_Submitted ~> C28_Joined

====
